---- MODULE Spec2Model ----
(***************************************************************************)
(* Model of SquashedOrder.py: sequence numbers ("squashed order") for      *)
(* ascending sequences and for a deck split into four hands.               *)
(*                                                                         *)
(* The source deals 52 cards into 4 hands of 13.  choose(52,13) does not   *)
(* fit the model checker's integers, so the hand size is a parameter of    *)
(* the model: the literals 13, 26, 39 and 52 of the source are HandSize,   *)
(* N26, N39 and N52 here.  Everything else is translated literally.        *)
(***************************************************************************)
EXTENDS Integers, Sequences, FiniteSets, TLC

HandSize == 2            \* the source's 13
N52 == 4 * HandSize      \* the source's 52
N39 == N52 - HandSize    \* the source's 39
N26 == N39 - HandSize    \* the source's 26

MaxN == 5                \* largest domain size n tried for index / seq
MaxOver == 2             \* how far outside its valid range an index is tried:
                         \* in units for seq, in multiples of max39 for seq52_13
ShortDeck == 5           \* cards in the short deck that overlapping hands come from

VARIABLES
    pc,      \* "main", "seq" (inside the loop of seq) or "done"
    fn,      \* the function main has called
    args,    \* its arguments
    frame,   \* the locals of seq while its loop runs
    local,   \* the locals i and s / gi of test and test52
    ret      \* what the call returned or raised

vars == <<pc, fn, args, frame, local, ret>>

----------------------------------------------------------------------------
(* Python helpers *)

Range(s) == {s[i] : i \in DOMAIN s}

min(s) == CHOOSE x \in Range(s) : \A y \in Range(s) : x <= y

max(s) == CHOOSE x \in Range(s) : \A y \in Range(s) : x >= y

sorted(s) == SortSeq(s, LAMBDA x, y : x < y)

\* range(k): the list [0, 1, ..., k-1], empty when k <= 0
range(k) == [e \in 1..k |-> e - 1]

Ok(v) == [status |-> "ok", value |-> v]

Raise(e) == [status |-> e, value |-> <<>>]

----------------------------------------------------------------------------
(* choose, max26, max39, index *)

RECURSIVE factorial(_)
factorial(m) == IF m = 0 THEN 1 ELSE m * factorial(m - 1)

\* choose with the guard n <= k in place of n < k
choose_offByOne(m, k) ==
    IF m <= k THEN 0 ELSE (factorial(m) \div factorial(m - k)) \div factorial(k)

choose(m, k) ==
    IF m < k THEN 0 ELSE (factorial(m) \div factorial(m - k)) \div factorial(k)

max26 == choose(N26, HandSize)

max39 == choose(N39, HandSize) * max26

\* the number of deals: choose(52,13) * choose(39,13) * choose(26,13)
max52 == choose(N52, HandSize) * max39

\* index with enumerate(seq) counting from 0
RECURSIVE index_fromZero(_)
index_fromZero(s) ==
    IF s = <<>> THEN 0
    ELSE index_fromZero(SubSeq(s, 1, Len(s) - 1))
            + choose(s[Len(s)], Len(s) - 1)

\* sum(choose(x, i) for i, x in enumerate(seq, start=1))
RECURSIVE index(_)
index(s) ==
    IF s = <<>> THEN 0
    ELSE index(SubSeq(s, 1, Len(s) - 1)) + choose(s[Len(s)], Len(s))

----------------------------------------------------------------------------
(* seq: the loop state is the frame [index, n, l, c, set]; n is the        *)
(* candidate the for statement is about to hand to the body.               *)

\* the entry with c started at choose(n, l)
SeqEnter_fullN(i, m, k) ==
    [index |-> i, n |-> m - 1, l |-> k, c |-> choose(m, k), set |-> <<>>]

SeqEnter(i, m, k) ==
    [index |-> i, n |-> m - 1, l |-> k, c |-> choose(m - 1, k), set |-> <<>>]

\* the loop body with the two updates of c exchanged
SeqBody_swapped(f) ==
    IF f.index < f.c
    THEN [f EXCEPT !.c = (f.c * f.l) \div f.n,
                   !.n = f.n - 1]
    ELSE [index |-> f.index - f.c,
          n     |-> f.n - 1,
          l     |-> f.l - 1,
          c     |-> (f.c * (f.n - f.l)) \div f.n,
          set   |-> Append(f.set, f.n)]

SeqBody(f) ==
    IF f.index < f.c
    THEN [f EXCEPT !.c = (f.c * (f.n - f.l)) \div f.n,
                   !.n = f.n - 1]
    ELSE [index |-> f.index - f.c,
          n     |-> f.n - 1,
          l     |-> f.l - 1,
          c     |-> (f.c * f.l) \div f.n,
          set   |-> Append(f.set, f.n)]

\* the return without the numbers the loop did not reach
SeqReturn_noFill(f) == sorted(f.set)

SeqReturn(f) == sorted(range(f.l) \o sorted(f.set))

RECURSIVE SeqLoop(_)
SeqLoop(f) == IF f.n >= 1 THEN SeqLoop(SeqBody(f)) ELSE f

seq(i, m, k) == SeqReturn(SeqLoop(SeqEnter(i, m, k)))

----------------------------------------------------------------------------
(* index52_13: the walk over range(52) keeps [a, b, c, A, B, C].           *)
(* Python lists are 0-based, so A[a] of the source is A[a + 1] here.       *)

\* the walk with group 2 compressed by a only
CompressStep_shortC(w, element) ==
    IF w.a < HandSize /\ element = w.A[w.a + 1]
    THEN [w EXCEPT !.a = @ + 1]
    ELSE IF w.b < HandSize /\ element = w.B[w.b + 1]
    THEN [w EXCEPT !.B[w.b + 1] = @ - w.a, !.b = @ + 1]
    ELSE IF w.c < HandSize /\ element = w.C[w.c + 1]
    THEN [w EXCEPT !.C[w.c + 1] = @ - w.a, !.c = @ + 1]
    ELSE w

CompressStep(w, element) ==
    IF w.a < HandSize /\ element = w.A[w.a + 1]
    THEN [w EXCEPT !.a = @ + 1]
    ELSE IF w.b < HandSize /\ element = w.B[w.b + 1]
    THEN [w EXCEPT !.B[w.b + 1] = @ - w.a, !.b = @ + 1]
    ELSE IF w.c < HandSize /\ element = w.C[w.c + 1]
    THEN [w EXCEPT !.C[w.c + 1] = @ - (w.a + w.b), !.c = @ + 1]
    ELSE w

RECURSIVE CompressWalk(_, _)
CompressWalk(w, element) ==
    IF element < N52 THEN CompressWalk(CompressStep(w, element), element + 1)
    ELSE w

Compressed(sets) ==
    CompressWalk([a |-> 0, b |-> 0, c |-> 0,
                  A |-> sorted(sets[1]),
                  B |-> sorted(sets[2]),
                  C |-> sorted(sets[3])], 0)

\* index52_13 that also asserts the fourth group to be disjoint from the rest
index52_13_checksFourth(sets) ==
    IF Len(sets) \notin {3, 4} THEN Raise("AssertionError")
    ELSE IF ~ \A j \in DOMAIN sets : Len(sets[j]) = HandSize
    THEN Raise("AssertionError")
    ELSE IF ~ \A j \in DOMAIN sets : 0 <= min(sets[j]) /\ max(sets[j]) < N52
    THEN Raise("AssertionError")
    ELSE IF Len(sets) = 4 /\ \E j \in 1 .. 3 :
                                Range(sets[4]) \cap Range(sets[j]) # {}
    THEN Raise("AssertionError")
    ELSE LET w == Compressed(sets) IN
         IF ~ (min(w.A) >= 0 /\ min(w.B) >= 0 /\ min(w.C) >= 0)
         THEN Raise("AssertionError")
         ELSE IF ~ (max(w.A) < N52 /\ max(w.B) < N39 /\ max(w.C) < N26)
         THEN Raise("AssertionError")
         ELSE Ok(index(w.A) * max39 + index(w.B) * max26 + index(w.C))

index52_13(sets) ==
    IF Len(sets) \notin {3, 4} THEN Raise("AssertionError")
    ELSE IF ~ \A j \in DOMAIN sets : Len(sets[j]) = HandSize
    THEN Raise("AssertionError")
    ELSE IF ~ \A j \in DOMAIN sets : 0 <= min(sets[j]) /\ max(sets[j]) < N52
    THEN Raise("AssertionError")
    ELSE LET w == Compressed(sets) IN
         IF ~ (min(w.A) >= 0 /\ min(w.B) >= 0 /\ min(w.C) >= 0)
         THEN Raise("AssertionError")
         ELSE IF ~ (max(w.A) < N52 /\ max(w.B) < N39 /\ max(w.C) < N26)
         THEN Raise("AssertionError")
         ELSE Ok(index(w.A) * max39 + index(w.B) * max26 + index(w.C))

----------------------------------------------------------------------------
(* seq52_13: the walk over range(52) keeps [a, b, c, A, B, C, D, err];     *)
(* err records a subscript outside its list (IndexError), which ends the   *)
(* call.                                                                   *)

\* the walk with group 1 compared to the element itself
ExpandStep_rawB(w, element) ==
    IF w.err THEN w
    ELSE IF w.a < HandSize /\ w.a >= Len(w.A) THEN [w EXCEPT !.err = TRUE]
    ELSE IF w.a < HandSize /\ w.A[w.a + 1] = element
    THEN [w EXCEPT !.a = @ + 1]
    ELSE IF w.b < HandSize /\ w.b >= Len(w.B) THEN [w EXCEPT !.err = TRUE]
    ELSE IF w.b < HandSize /\ w.B[w.b + 1] = element
    THEN [w EXCEPT !.B[w.b + 1] = element, !.b = @ + 1]
    ELSE IF w.c < HandSize /\ w.c >= Len(w.C) THEN [w EXCEPT !.err = TRUE]
    ELSE IF w.c < HandSize /\ w.C[w.c + 1] = element - w.a - w.b
    THEN [w EXCEPT !.C[w.c + 1] = element, !.c = @ + 1]
    ELSE [w EXCEPT !.D = Append(@, element)]

ExpandStep(w, element) ==
    IF w.err THEN w
    ELSE IF w.a < HandSize /\ w.a >= Len(w.A) THEN [w EXCEPT !.err = TRUE]
    ELSE IF w.a < HandSize /\ w.A[w.a + 1] = element
    THEN [w EXCEPT !.a = @ + 1]
    ELSE IF w.b < HandSize /\ w.b >= Len(w.B) THEN [w EXCEPT !.err = TRUE]
    ELSE IF w.b < HandSize /\ w.B[w.b + 1] = element - w.a
    THEN [w EXCEPT !.B[w.b + 1] = element, !.b = @ + 1]
    ELSE IF w.c < HandSize /\ w.c >= Len(w.C) THEN [w EXCEPT !.err = TRUE]
    ELSE IF w.c < HandSize /\ w.C[w.c + 1] = element - w.a - w.b
    THEN [w EXCEPT !.C[w.c + 1] = element, !.c = @ + 1]
    ELSE [w EXCEPT !.D = Append(@, element)]

RECURSIVE ExpandWalk(_, _)
ExpandWalk(w, element) ==
    IF element < N52 THEN ExpandWalk(ExpandStep(w, element), element + 1)
    ELSE w

\* the split with the quotient and the remainder of the second divmod exchanged
Expanded_swappedDigits(i) ==
    LET i52 == i \div max39
        r39 == i % max39
        i26 == r39 \div max26
        i39 == r39 % max26
    IN  ExpandWalk([a |-> 0, b |-> 0, c |-> 0,
                    A |-> seq(i52, N52, HandSize),
                    B |-> seq(i39, N39, HandSize),
                    C |-> seq(i26, N26, HandSize),
                    D |-> <<>>, err |-> FALSE], 0)

Expanded(i) ==
    LET i52 == i \div max39
        r39 == i % max39
        i39 == r39 \div max26
        i26 == r39 % max26
    IN  ExpandWalk([a |-> 0, b |-> 0, c |-> 0,
                    A |-> seq(i52, N52, HandSize),
                    B |-> seq(i39, N39, HandSize),
                    C |-> seq(i26, N26, HandSize),
                    D |-> <<>>, err |-> FALSE], 0)

\* seq52_13 without the assertion on the lengths
seq52_13_noLenAssert(i) ==
    LET w == Expanded(i)
        sets == <<w.A, w.B, w.C, w.D>>
    IN  IF w.err THEN Raise("IndexError")
        ELSE IF ~ \A j \in DOMAIN sets : 0 <= min(sets[j]) /\ max(sets[j]) < N52
        THEN Raise("AssertionError")
        ELSE Ok(sets)

seq52_13(i) ==
    LET w == Expanded(i)
        sets == <<w.A, w.B, w.C, w.D>>
    IN  IF w.err THEN Raise("IndexError")
        ELSE IF ~ \A j \in DOMAIN sets : Len(sets[j]) = HandSize
        THEN Raise("AssertionError")
        ELSE IF ~ \A j \in DOMAIN sets : 0 <= min(sets[j]) /\ max(sets[j]) < N52
        THEN Raise("AssertionError")
        ELSE Ok(sets)

----------------------------------------------------------------------------
(* Inputs *)

Deck == 0 .. N52 - 1

Combos(S, k) == {x \in SUBSET S : Cardinality(x) = k}

\* the ascending list of a set of integers
RECURSIVE Asc(_)
Asc(S) ==
    IF S = {} THEN <<>>
    ELSE LET m == CHOOSE x \in S : \A y \in S : x >= y
         IN  Append(Asc(S \ {m}), m)

\* the descending list of a set of integers
Desc(S) == LET up == Asc(S) IN [e \in 1..Len(up) |-> up[Len(up) + 1 - e]]

\* the hands dealt from the lowest ShortDeck cards only
ShortHands == {Asc(x) : x \in Combos(0 .. ShortDeck - 1, HandSize)}

NoArgs == [sets |-> <<>>, index |-> 0, n |-> 0, l |-> 0]

NoFrame == [index |-> 0, n |-> 0, l |-> 0, c |-> 0, set |-> <<>>]

NoLocal == [n |-> 0, l |-> <<>>, i |-> 0, s |-> <<>>]

NoRet == [status |-> "none", value |-> <<>>]

Init ==
    /\ pc = "main"
    /\ fn = "none"
    /\ args = NoArgs
    /\ frame = NoFrame
    /\ local = NoLocal
    /\ ret = NoRet

----------------------------------------------------------------------------
(* main: test52(deal()) *)

\* test52(g): i = index52_13(g); gi = seq52_13(i); assert g == gi
test52_run(g) ==
    LET i == index52_13(g) IN
    IF i.status # "ok" THEN [local |-> NoLocal, ret |-> i]
    ELSE LET gi == seq52_13(i.value) IN
         IF gi.status # "ok"
         THEN [local |-> [NoLocal EXCEPT !.i = i.value], ret |-> gi]
         ELSE [local |-> [NoLocal EXCEPT !.i = i.value, !.s = gi.value],
               ret   |-> IF g = gi.value THEN Ok(<<>>)
                         ELSE Raise("AssertionError")]

\* deal(): the deck shuffled and cut into four sorted hands
deal(g0, g1, g2) ==
    <<Asc(g0), Asc(g1), Asc(g2), Asc(Deck \ (g0 \cup g1 \cup g2))>>

test52 ==
    /\ pc = "main"
    /\ \E g0 \in Combos(Deck, HandSize) :
       \E g1 \in Combos(Deck \ g0, HandSize) :
       \E g2 \in Combos(Deck \ (g0 \cup g1), HandSize) :
       \E g \in {deal(g0, g1, g2)} :
       \E r \in {test52_run(g)} :
          /\ args' = [NoArgs EXCEPT !.sets = g]
          /\ local' = r.local
          /\ ret' = r.ret
    /\ fn' = "test52"
    /\ pc' = "done"
    /\ UNCHANGED frame

Next == test52

Spec == Init /\ [][Next]_vars

----------------------------------------------------------------------------
(* index52_13 called on its own, as Board.index does: with three or four   *)
(* hands of a deal, or with hands that were not checked to be disjoint     *)
(* (here: three hands dealt from a short deck).                            *)

Call_index52_13_deal ==
    /\ pc = "main"
    /\ \E g0 \in Combos(Deck, HandSize) :
       \E g1 \in Combos(Deck \ g0, HandSize) :
       \E g2 \in Combos(Deck \ (g0 \cup g1), HandSize) :
       \E g \in {deal(g0, g1, g2)} :
       \E sets \in {g, SubSeq(g, 1, 3)} :
          /\ args' = [NoArgs EXCEPT !.sets = sets]
          /\ ret' = index52_13(sets)
    /\ fn' = "index52_13"
    /\ pc' = "done"
    /\ UNCHANGED <<frame, local>>

Call_index52_13_any ==
    /\ pc = "main"
    /\ \E sets \in ShortHands \X ShortHands \X ShortHands :
          /\ args' = [NoArgs EXCEPT !.sets = sets]
          /\ ret' = index52_13(sets)
    /\ fn' = "index52_13"
    /\ pc' = "done"
    /\ UNCHANGED <<frame, local>>

NextEncode == Call_index52_13_deal \/ Call_index52_13_any

SpecEncode == Init /\ [][NextEncode]_vars

----------------------------------------------------------------------------
(* index52_13 called with a fourth hand that need not be what the first    *)
(* three leave: a hand from the short deck, the top cards, or the true     *)
(* complement.  The first hand comes from the short deck.                  *)

FourthHands(g0, g1, g2) ==
    ShortHands \cup {Asc(N52 - HandSize .. N52 - 1),
                     Asc(Deck \ (g0 \cup g1 \cup g2))}

Call_index52_13_fourth ==
    /\ pc = "main"
    /\ \E g0 \in Combos(0 .. ShortDeck - 1, HandSize) :
       \E g1 \in Combos(Deck \ g0, HandSize) :
       \E g2 \in Combos(Deck \ (g0 \cup g1), HandSize) :
       \E g3 \in FourthHands(g0, g1, g2) :
       \E sets \in {<<Asc(g0), Asc(g1), Asc(g2), g3>>} :
          /\ args' = [NoArgs EXCEPT !.sets = sets]
          /\ ret' = index52_13(sets)
    /\ fn' = "index52_13"
    /\ pc' = "done"
    /\ UNCHANGED <<frame, local>>

NextFourth == Call_index52_13_fourth

SpecFourth == Init /\ [][NextFourth]_vars

----------------------------------------------------------------------------
(* seq52_13 called on its own, as Board.addHands does, with whatever       *)
(* integer the caller holds.                                               *)

Call_seq52_13 ==
    /\ pc = "main"
    /\ \E i \in (0 - MaxOver * max39) .. (max52 - 1 + MaxOver * max39) :
          /\ args' = [NoArgs EXCEPT !.index = i]
          /\ ret' = seq52_13(i)
    /\ fn' = "seq52_13"
    /\ pc' = "done"
    /\ UNCHANGED <<frame, local>>

NextDecode == Call_seq52_13

SpecDecode == Init /\ [][NextDecode]_vars

----------------------------------------------------------------------------
(* index and seq: test(l, n) and seq called on its own.  The loop of seq   *)
(* runs one iteration per step.                                            *)

\* test(l, n=None); None and 0 both take the default n = max(l) + 1
test ==
    /\ pc = "main"
    /\ \E S \in SUBSET (0 .. MaxN - 1) :
       \E l \in {Asc(S), Desc(S)} :
       \E n \in {0} \cup {m \in 1 .. MaxN : \A x \in S : x < m} :
          /\ args' = [NoArgs EXCEPT !.n = n, !.l = l]
          /\ IF n = 0 /\ l = <<>>
             THEN /\ pc' = "done"          \* max([]) raises
                  /\ ret' = Raise("ValueError")
                  /\ UNCHANGED <<frame, local>>
             ELSE LET n1 == IF n # 0 THEN n ELSE max(l) + 1
                      l1 == sorted(l)
                      i  == index(l1)
                  IN  /\ pc' = "seq"
                      /\ local' = [NoLocal EXCEPT !.n = n1, !.l = l1, !.i = i]
                      /\ frame' = SeqEnter(i, n1, Len(l1))
                      /\ UNCHANGED ret
    /\ fn' = "test"

Call_seq ==
    /\ pc = "main"
    /\ \E n \in 0 .. MaxN :
       \E l \in 0 .. n :
       \E i \in (0 - MaxOver) .. (choose(n, l) - 1 + MaxOver) :
          /\ args' = [NoArgs EXCEPT !.index = i, !.n = n, !.l = l]
          /\ frame' = SeqEnter(i, n, l)
    /\ fn' = "seq"
    /\ pc' = "seq"
    /\ UNCHANGED <<local, ret>>

\* one iteration of  for n in range(n - 1, 0, -1)
seq_body ==
    /\ pc = "seq"
    /\ frame.n >= 1
    /\ frame' = SeqBody(frame)
    /\ UNCHANGED <<pc, fn, args, local, ret>>

\* the loop is exhausted: seq returns, and test compares
seq_return ==
    /\ pc = "seq"
    /\ frame.n < 1
    /\ pc' = "done"
    /\ \E s \in {SeqReturn(frame)} :
          IF fn = "test"
          THEN /\ local' = [local EXCEPT !.s = s]
               /\ ret' = IF local.l = s THEN Ok(<<>>)
                         ELSE Raise("AssertionError")
          ELSE /\ ret' = Ok(s)
               /\ UNCHANGED local
    /\ UNCHANGED <<fn, args, frame>>

NextRank == test \/ Call_seq \/ seq_body \/ seq_return

SpecRank == Init /\ [][NextRank]_vars

----------------------------------------------------------------------------
(* Properties *)

\* the strictly ascending k-sequences over [0, m)
AscSeqs(m, k) == {Asc(x) : x \in Combos(0 .. m - 1, k)}

StrictlyAscending(s) == \A j \in 1 .. Len(s) - 1 : s[j] < s[j + 1]

\* 13 values of [0,52) each, the groups pairwise disjoint
PairwiseDisjoint(sets) ==
    \A j, k \in DOMAIN sets : j < k => Range(sets[j]) \cap Range(sets[k]) = {}

ValidGroups(sets) ==
    /\ \A j \in DOMAIN sets :
          Len(sets[j]) = HandSize /\ Range(sets[j]) \subseteq Deck
                                  /\ Cardinality(Range(sets[j])) = HandSize
    /\ PairwiseDisjoint(sets)

\* C1: test52 finds seq52_13(index52_13(g)) to be g itself, the same four
\* ascending groups in the same order, for every deal g.
C1_DealRoundTrip ==
    (pc = "done" /\ fn = "test52") =>
        /\ ret.status = "ok"
        /\ local.s = args.sets
        /\ \A j \in 1 .. 4 : StrictlyAscending(local.s[j])

\* a deal whose last hand holds the top cards and whose first holds card 0
C1_Witness ==
    /\ pc = "done" /\ fn = "test52" /\ ret.status = "ok"
    /\ local.s = args.sets
    /\ args.sets[1][1] = 0
    /\ args.sets[4][HandSize] = N52 - 1
    /\ local.i > 0

\* C5: for three or four pairwise-disjoint groups index52_13 raises nothing
\* and returns r with 0 <= r < choose(52,13)*choose(39,13)*choose(26,13).
C5_EncodeRange ==
    (pc = "done" /\ fn = "index52_13" /\ ValidGroups(args.sets)) =>
        /\ ret.status = "ok"
        /\ 0 <= ret.value /\ ret.value < max52

\* three groups that need compressing, encoded to the largest index
C5_Witness ==
    /\ pc = "done" /\ fn = "index52_13" /\ ValidGroups(args.sets)
    /\ Len(args.sets) = 3
    /\ ret.status = "ok" /\ ret.value = max52 - 1

\* C6: seq52_13 raises an error for every index >= the number of deals.
C6_DecodeRejectsTooLarge ==
    (pc = "done" /\ fn = "seq52_13" /\ args.index >= max52) =>
        ret.status # "ok"

\* the first index past the range, rejected by the length assertion
C6_Witness ==
    /\ pc = "done" /\ fn = "seq52_13" /\ args.index = max52
    /\ ret.status = "AssertionError"

\* C7: seq52_13 raises an error for every negative index.
C7_DecodeRejectsNegative ==
    (pc = "done" /\ fn = "seq52_13" /\ args.index < 0) => ret.status # "ok"

\* C8: index52_13 raises an error whenever two of the first three groups
\* share an element.
C8_EncodeRejectsOverlap ==
    (pc = "done" /\ fn = "index52_13"
        /\ ~ PairwiseDisjoint(SubSeq(args.sets, 1, 3))) => ret.status # "ok"

\* C10: for every index in range seq52_13 returns four strictly ascending
\* groups of 13, pairwise disjoint, covering [0,52); the walk matches every
\* element of the compressed groups and the last group is the complement.
C10_DecodeValidPartition ==
    (pc = "done" /\ fn = "seq52_13"
        /\ 0 <= args.index /\ args.index < max52) =>
        /\ ret.status = "ok"
        /\ Len(ret.value) = 4
        /\ ValidGroups(ret.value)
        /\ \A j \in 1 .. 4 : StrictlyAscending(ret.value[j])
        /\ UNION {Range(ret.value[j]) : j \in 1 .. 4} = Deck
        /\ Range(ret.value[4]) =
              Deck \ UNION {Range(ret.value[j]) : j \in 1 .. 3}
        /\ LET w == Expanded(args.index)
           IN  w.a = HandSize /\ w.b = HandSize /\ w.c = HandSize

\* an index whose three digits are all non-zero, decoded to interleaved hands
C10_Witness ==
    /\ pc = "done" /\ fn = "seq52_13" /\ ret.status = "ok"
    /\ args.index = max39 + max26 + 1
    /\ ValidGroups(ret.value)
    /\ ret.value[1][1] = 0

\* the highest position where two different sequences of one length differ
TopDiff(s, t) ==
    CHOOSE j \in DOMAIN s :
        s[j] # t[j] /\ \A k \in DOMAIN s : k > j => s[k] = t[k]

InRange(i, m, k) == 0 <= i /\ i < choose(m, k)

\* C2: seq(index(s), n, k) == s for every strictly ascending k-sequence s
\* over [0, n), 0 <= k <= n: a call of seq on the index of s returns s, and
\* the comparison test makes of the two never fails.
C2_RankUnrankRoundTrip ==
    /\ (pc = "done" /\ fn = "seq") =>
          \A s \in AscSeqs(args.n, args.l) :
              index(s) = args.index => ret.value = s
    /\ (pc = "done" /\ fn = "test" /\ ret.status # "ValueError") =>
          ret.status = "ok" /\ local.s = local.l

\* a sequence that holds 0, which the loop never visits, among larger values
C2_Witness ==
    /\ pc = "done" /\ fn = "seq"
    /\ args.n = 5 /\ args.l = 3 /\ args.index = index(<<0, 2, 4>>)
    /\ ret.value = <<0, 2, 4>>

\* C3: over the C(n,k) strictly ascending k-sequences of [0, n) index takes
\* every value of [0, C(n,k)) exactly once: the index test computed is in
\* range, no other sequence has it, and every value of the range is taken.
C3_RankBijective ==
    (pc # "main" /\ fn = "test") =>
        LET all == AscSeqs(local.n, Len(local.l))
            top == choose(local.n, Len(local.l))
        IN  /\ Cardinality(all) = top
            /\ local.i \in 0 .. top - 1
            /\ \A t \in all : index(t) = local.i => t = local.l
            /\ {index(t) : t \in all} = 0 .. top - 1

\* a middle sequence of the 3-sequences over [0, 5)
C3_Witness ==
    /\ pc = "done" /\ fn = "test"
    /\ local.n = 5 /\ local.l = <<1, 2, 4>> /\ local.i = 6

\* C4: of two different strictly ascending k-sequences over [0, n) the one
\* with the larger value at the highest position where they differ has the
\* larger index.
C4_RankOrderPreserving ==
    (pc # "main" /\ fn = "test") =>
        \A t \in AscSeqs(local.n, Len(local.l)) \ {local.l} :
            LET j == TopDiff(local.l, t)
            IN  /\ local.l[j] > t[j] => local.i > index(t)
                /\ local.l[j] < t[j] => local.i < index(t)

\* <<0, 3, 4>> is above <<1, 2, 4>> although it starts lower
C4_Witness ==
    /\ pc = "done" /\ fn = "test"
    /\ local.n = 5 /\ local.l = <<0, 3, 4>>
    /\ local.i > index(<<1, 2, 4>>)

\* C9: seq raises an error for every index < 0 or >= choose(n, l), before
\* it walks the candidates, and returns no sequence.
C9_UnrankRejectsOutOfRange ==
    (pc = "done" /\ fn = "seq" /\ ~ InRange(args.index, args.n, args.l)) =>
        ret.status # "ok"

\* C11: index52_13(seq52_13(index)) == index for every index in range, and
\* the three ranks index52_13 combines for the decoded deal are the digits
\* the two divmods of seq52_13 split the index into.
C11_DecodeEncodeRoundTrip ==
    (pc = "done" /\ fn = "seq52_13"
        /\ 0 <= args.index /\ args.index < max52) =>
        /\ ret.status = "ok"
        /\ index52_13(ret.value) = Ok(args.index)
        /\ LET w == Compressed(ret.value)
           IN  /\ index(w.A) = args.index \div max39
               /\ index(w.B) = (args.index % max39) \div max26
               /\ index(w.C) = (args.index % max39) % max26

\* the largest index, whose three digits are all at their maximum
C11_Witness ==
    /\ pc = "done" /\ fn = "seq52_13" /\ ret.status = "ok"
    /\ args.index = max52 - 1
    /\ index52_13(ret.value) = Ok(max52 - 1)
    /\ ret.value[4] = range(HandSize)

\* C12: for valid first three groups and any fourth group of 13 values of
\* [0,52), the complement or not, index52_13 of the four groups is
\* index52_13 of the first three.
C12_FourthGroupIgnored ==
    (pc = "done" /\ fn = "index52_13" /\ Len(args.sets) = 4
        /\ ValidGroups(SubSeq(args.sets, 1, 3))
        /\ Len(args.sets[4]) = HandSize
        /\ Range(args.sets[4]) \subseteq Deck) =>
        /\ ret.status = "ok"
        /\ ret = index52_13(SubSeq(args.sets, 1, 3))

\* a fourth hand that repeats cards of the first, and a non-zero index
C12_Witness ==
    /\ pc = "done" /\ fn = "index52_13" /\ Len(args.sets) = 4
    /\ ValidGroups(SubSeq(args.sets, 1, 3))
    /\ Range(args.sets[4]) \cap Range(args.sets[1]) # {}
    /\ ret.status = "ok" /\ ret.value > max39
    /\ ret = index52_13(SubSeq(args.sets, 1, 3))

\* a call of seq with 0 <= index < choose(n, l); test always makes one
ValidSeqCall ==
    \/ fn = "test"
    \/ fn = "seq" /\ InRange(args.index, args.n, args.l)

\* at the start of an iteration with candidate frame.n
SeqLoopInvariant ==
    (pc = "seq" /\ ValidSeqCall /\ frame.n >= 1) =>
        /\ frame.l >= 0
        /\ frame.c = choose(frame.n, frame.l)
        /\ 0 <= frame.index /\ frame.index < choose(frame.n + 1, frame.l)
        /\ (frame.c * (frame.n - frame.l)) % frame.n = 0
        /\ (frame.c * frame.l) % frame.n = 0

\* once the loop is exhausted
SeqLoopExit ==
    (pc # "main" /\ ValidSeqCall /\ frame.n < 1) => frame.l \in {0, 1}

\* an iteration appends its candidate exactly when index >= c
SeqAppendsWhenNotBelow ==
    (pc = "seq" /\ ValidSeqCall /\ frame.n >= 1 /\ frame' # frame) =>
        /\ frame.index >= frame.c => frame'.set = Append(frame.set, frame.n)
        /\ frame.index < frame.c => frame'.set = frame.set
        /\ frame'.l >= 0

====
